---- MODULE Spec2Model ----
(***************************************************************************)
(* A model of the rostering engine (src/src/rostering/engine.py).          *)
(*                                                                         *)
(* RosterEngine.solve builds a CP-SAT model over the boolean matrix        *)
(* x[g,s] ("guard g works slot s"), hands it to the solver and decodes the *)
(* solution into a RosterResult.  The solver is modelled by what it        *)
(* guarantees: a returned solution satisfies every constraint that solve   *)
(* added, an OPTIMAL one also minimises the objective, and with a time     *)
(* limit the solver may stop at a FEASIBLE solution or at UNKNOWN.         *)
(* RosterEngine.find_minimum_staffing is the loop around solve.            *)
(*                                                                         *)
(* Instants are whole hours since midnight of day 0.  x is kept as         *)
(* x[g] = the set of slot indexes guard g works.                           *)
(***************************************************************************)
EXTENDS Integers, Sequences, FiniteSets, TLC

(* ------------------------------ bounds --------------------------------- *)
MaxGuards == 2
MaxSlots == 2
MaxRequired == 2
MaxPriority == 1

(* ------------------------- program constants --------------------------- *)
HoursPerDay == 24
None == -1
NoSkill == "None"
NoRole == "None"
Absent == [absent |-> TRUE]

(* cp_model status codes *)
UNKNOWN == 0
MODEL_INVALID == 1
FEASIBLE == 2
INFEASIBLE == 3
OPTIMAL == 4

StatusName(status) ==
    CASE status = UNKNOWN -> "UNKNOWN"
      [] status = MODEL_INVALID -> "MODEL_INVALID"
      [] status = FEASIBLE -> "FEASIBLE"
      [] status = INFEASIBLE -> "INFEASIBLE"
      [] status = OPTIMAL -> "OPTIMAL"

(* SoftConstraintWeights defaults *)
DefaultSoft ==
    [coverage_shortfall |-> 1000, min_break_violation |-> 250,
     rest_window_violation |-> 250, consecutive_day_violation |-> 400,
     fairness_penalty |-> 10]

(* HardConstraintSpec defaults *)
DefaultHard ==
    [enforce_coverage |-> TRUE, enforce_skill_requirements |-> TRUE,
     enforce_role_coverage |-> FALSE, max_consecutive_days |-> None,
     min_break_hours |-> None, rest_window_hours |-> None]

(* RosterConstraintConfig defaults *)
DefaultConfig ==
    [hard |-> DefaultHard, soft |-> DefaultSoft, fairness_target_hours |-> None]

(* ------------------------------ helpers -------------------------------- *)
Max2(a, b) == IF a >= b THEN a ELSE b

SetMax(S) == CHOOSE v \in S : \A w \in S : w <= v

SetMin(S) == CHOOSE v \in S : \A w \in S : v <= w

RECURSIVE SeqSum(_)
SeqSum(q) == IF q = <<>> THEN 0 ELSE Head(q) + SeqSum(Tail(q))

Indexes(q) == 1..Len(q)

(* ----------------------------- domain model ---------------------------- *)
(* DemandSlot.duration_hours *)
duration_hours(slot) == slot.end - slot.start

(* DemandSlot.day_index *)
day_index(slot) == slot.start \div HoursPerDay

(* guard_role_sets: declared roles united with skills *)
guard_role_set(guard) == guard.roles \cup guard.skills

(* sum(role_requirements.values()) *)
total_role_required(slot) ==
    SeqSum([k \in Indexes(slot.required_roles) |-> slot.required_roles[k].count])

(* a slip: the role counts left out of the requirement *)
required_total_guards_only(slot) == slot.required_guards

(* required_total = max(slot.required_guards, total_role_required) *)
required_total(slot) == Max2(slot.required_guards, total_role_required(slot))

(* the guards the matrix x puts on slot s, in guard order *)
AssignedTo(x, s) == {g \in DOMAIN x : s \in x[g]}

(* --------------------------- model builder ----------------------------- *)
(* a slip: eligibility read off the role set instead of the skills *)
SkillBlocked_by_role_set(cfg, guard, slot) ==
    /\ cfg.hard.enforce_skill_requirements
    /\ slot.required_skill # NoSkill
    /\ slot.required_skill \notin guard_role_set(guard)

(* skill eligibility: the variable is fixed to 0 *)
SkillBlocked(cfg, guard, slot) ==
    /\ cfg.hard.enforce_skill_requirements
    /\ slot.required_skill # NoSkill
    /\ slot.required_skill \notin guard.skills

SkillOK(G, S, cfg, x) ==
    \A g \in Indexes(G) : \A s \in Indexes(S) :
        SkillBlocked(cfg, G[g], S[s]) => s \notin x[g]

(* one role line of a slot: sum(eligible) >= count *)
RoleLineOK(G, x, s, entry) ==
    LET eligible == {g \in Indexes(G) : entry.role \in guard_role_set(G[g])}
    IN  Cardinality(eligible \cap AssignedTo(x, s)) >= entry.count

RoleCoverageOK(G, S, cfg, x) ==
    cfg.hard.enforce_role_coverage =>
        \A s \in Indexes(S) : \A k \in Indexes(S[s].required_roles) :
            RoleLineOK(G, x, s, S[s].required_roles[k])

(* hard coverage: sum(assigned) >= required_total *)
SlotCoverageOK(x, slot, s) == Cardinality(AssignedTo(x, s)) >= required_total(slot)

CoverageOK(S, cfg, x) ==
    cfg.hard.enforce_coverage =>
        \A s \in Indexes(S) : SlotCoverageOK(x, S[s], s)

(* sorted_days = sorted(slots_by_day): the distinct start days, ascending *)
DaySet(S) == {day_index(S[s]) : s \in Indexes(S)}

RECURSIVE SortedSeq(_)
SortedSeq(D) ==
    IF D = {} THEN <<>>
    ELSE LET lo == SetMin(D) IN <<lo>> \o SortedSeq(D \ {lo})

sorted_days(S) == SortedSeq(DaySet(S))

(* slots_by_day[day] *)
slots_by_day(S, day) == {s \in Indexes(S) : day_index(S[s]) = day}

(* presence <=> the guard works at least one slot starting that day *)
day_presence(S, x, g, day_idx) ==
    IF x[g] \cap slots_by_day(S, sorted_days(S)[day_idx]) # {} THEN 1 ELSE 0

(* sum(window_presence) over day indexes lo..hi *)
WindowSum(S, x, g, lo, hi) ==
    Cardinality({d \in lo..hi : day_presence(S, x, g, d) = 1})

(* a slip: the last window left out *)
HardWindowStarts_short(S, max_consec) == 1..(Len(sorted_days(S)) - max_consec - 1)

(* range(0, len(sorted_days) - max_consec), as 1-based window starts *)
HardWindowStarts(S, max_consec) == 1..(Len(sorted_days(S)) - max_consec)

(* hard max consecutive days: every window of max_consec+1 days sums <= max_consec *)
ConsecutiveOK(G, S, cfg, x) ==
    LET max_consec == cfg.hard.max_consecutive_days
    IN  max_consec # None =>
            \A g \in Indexes(G) : \A start \in HardWindowStarts(S, max_consec) :
                WindowSum(S, x, g, start, start + max_consec) <= max_consec

(* gaps in hours between two slots *)
gap_after_first(first, second) == second.start - first.end

gap_before_first(first, second) == first.start - second.end

(* "if min_break is not None and -min_break < gap_after_first < min_break" *)
BreakPair(cfg, first, second) ==
    LET min_break == cfg.hard.min_break_hours
    IN  /\ min_break # None
        /\ -min_break < gap_after_first(first, second)
        /\ gap_after_first(first, second) < min_break

(* "if rest_window is not None and 0 <= gap_after_first < rest_window" *)
RestPairForward(cfg, first, second) ==
    LET rest_window == cfg.hard.rest_window_hours
    IN  /\ rest_window # None
        /\ 0 <= gap_after_first(first, second)
        /\ gap_after_first(first, second) < rest_window

(* a slip: the symmetric test repeating the forward gap *)
RestPairBackward_forward_again(cfg, first, second) ==
    LET rest_window == cfg.hard.rest_window_hours
    IN  /\ rest_window # None
        /\ 0 <= gap_after_first(first, second)
        /\ gap_after_first(first, second) < rest_window

(* "also check symmetric direction" *)
RestPairBackward(cfg, first, second) ==
    LET rest_window == cfg.hard.rest_window_hours
    IN  /\ rest_window # None
        /\ 0 <= gap_before_first(first, second)
        /\ gap_before_first(first, second) < rest_window

(* a slip: the pair left to the penalty whenever a weight is set *)
BreakIsHard_unless_priced(cfg) ==
    cfg.hard.min_break_hours # None /\ cfg.soft.min_break_violation = 0

(* the branch taken under each test is the hard one whenever the value is set *)
BreakIsHard(cfg) == cfg.hard.min_break_hours # None

RestIsHard(cfg) == cfg.hard.rest_window_hours # None

(* model.Add(assign_first + assign_second <= 1) for the pairs i < j *)
PairsOK(G, S, cfg, x) ==
    \A g \in Indexes(G) : \A i \in Indexes(S) : \A j \in Indexes(S) :
        (/\ j > i
         /\ \/ BreakPair(cfg, S[i], S[j]) /\ BreakIsHard(cfg)
            \/ RestPairForward(cfg, S[i], S[j]) /\ RestIsHard(cfg)
            \/ RestPairBackward(cfg, S[i], S[j]) /\ RestIsHard(cfg))
        => ~(i \in x[g] /\ j \in x[g])

(* ---------------------------- penalty terms ---------------------------- *)
(* The name of a penalty term: the f-string of the code, kept as its parts. *)
TermName(kind, guard_id, slot_id, second_id, window) ==
    [kind |-> kind, guard |-> guard_id, slot |-> slot_id, second |-> second_id,
     window |-> window]

(* (weight, variable, name) ; the variable is kept as what it stands for *)
Term(weight, name, var, g, s, j) ==
    [weight |-> weight, name |-> name, var |-> var, g |-> g, s |-> s, j |-> j]

(* a slip: the slot id left out of the name *)
CoverageName_without_slot(slot) == TermName("coverage_shortfall", None, "", "", None)

(* f"coverage_shortfall::{slot.slot_id}" *)
CoverageName(slot) == TermName("coverage_shortfall", None, slot.slot_id, "", None)

(* soft coverage: one slack per slot when coverage is not enforced *)
CoverageTerms(S, cfg) ==
    IF cfg.hard.enforce_coverage THEN <<>>
    ELSE [s \in Indexes(S) |->
            Term(cfg.soft.coverage_shortfall, CoverageName(S[s]),
                 "coverage_slack", 0, s, 0)]

(* soft consecutive days: per guard, one slack per window start..last day *)
ConsecutiveTerms(G, S, cfg) ==
    LET d == Len(sorted_days(S))
    IN  IF /\ cfg.hard.max_consecutive_days = None
           /\ cfg.soft.consecutive_day_violation # 0
        THEN [k \in 1..(Len(G) * d) |->
                LET g == ((k - 1) \div d) + 1
                    start == ((k - 1) % d) + 1
                IN  Term(cfg.soft.consecutive_day_violation,
                         TermName("consecutive_day_violation", G[g].guard_id, "", "",
                                  start - 1),
                         "consec_slack", g, start, 0)]
        ELSE <<>>

(* soft break / rest slacks: the elif branches under the pair tests *)
PairTermAt(G, S, cfg, k) ==
    LET m == Len(S)
        g == ((k - 1) \div (m * m * 3)) + 1
        i == (((k - 1) \div (m * 3)) % m) + 1
        j == (((k - 1) \div 3) % m) + 1
        which == (k - 1) % 3
        gid == G[g].guard_id
    IN  CASE which = 0 ->
               [on |-> /\ j > i
                       /\ BreakPair(cfg, S[i], S[j])
                       /\ ~BreakIsHard(cfg)
                       /\ cfg.soft.min_break_violation # 0,
                term |-> Term(cfg.soft.min_break_violation,
                              TermName("min_break_violation", gid, S[i].slot_id,
                                       S[j].slot_id, None),
                              "pair_slack", g, i, j)]
          [] which = 1 ->
               [on |-> /\ j > i
                       /\ RestPairForward(cfg, S[i], S[j])
                       /\ ~RestIsHard(cfg)
                       /\ cfg.soft.rest_window_violation # 0,
                term |-> Term(cfg.soft.rest_window_violation,
                              TermName("rest_window_violation", gid, S[i].slot_id,
                                       S[j].slot_id, None),
                              "pair_slack", g, i, j)]
          [] which = 2 ->
               [on |-> /\ j > i
                       /\ RestPairBackward(cfg, S[i], S[j])
                       /\ ~RestIsHard(cfg)
                       /\ cfg.soft.rest_window_violation # 0,
                term |-> Term(cfg.soft.rest_window_violation,
                              TermName("rest_window_violation", gid, S[j].slot_id,
                                       S[i].slot_id, None),
                              "pair_slack", g, i, j)]

IsOn(e) == e.on

PairTerms(G, S, cfg) ==
    LET all == [k \in 1..(Len(G) * Len(S) * Len(S) * 3) |-> PairTermAt(G, S, cfg, k)]
        kept == SelectSeq(all, IsOn)
    IN  [k \in Indexes(kept) |-> kept[k].term]

(* expected_assignments = max(0, int(round(target_hours / average_slot_hours))) *)
(* with round() rounding halves to even                                         *)
RoundHalfEven(num, den) ==
    LET q == num \div den
        r == num % den
    IN  IF 2 * r < den THEN q
        ELSE IF 2 * r > den THEN q + 1
        ELSE IF q % 2 = 0 THEN q ELSE q + 1

expected_assignments(S, cfg) ==
    LET total_hours == SeqSum([s \in Indexes(S) |-> duration_hours(S[s])])
    IN  IF total_hours <= 0
        THEN Max2(0, cfg.fairness_target_hours)
        ELSE Max2(0, RoundHalfEven(cfg.fairness_target_hours * Len(S), total_hours))

(* fairness: the span term, then one deviation term per guard *)
FairnessTerms(G, S, cfg) ==
    IF cfg.soft.fairness_penalty # 0 /\ Len(G) > 0
    THEN <<Term(cfg.soft.fairness_penalty,
                TermName("fairness_span", None, "", "", None), "fairness_span", 0, 0, 0)>>
         \o (IF cfg.fairness_target_hours # None /\ Len(S) > 0
             THEN [g \in Indexes(G) |->
                     Term(cfg.soft.fairness_penalty,
                          TermName("fairness_target_deviation", G[g].guard_id, "", "",
                                   None),
                          "deviation", g, 0, 0)]
             ELSE <<>>)
    ELSE <<>>

(* penalty_terms, in the order solve appends them *)
penalty_terms(G, S, cfg) ==
    CoverageTerms(S, cfg) \o ConsecutiveTerms(G, S, cfg) \o PairTerms(G, S, cfg)
        \o FairnessTerms(G, S, cfg)

(* total_assignments of a guard *)
guard_total(x, g) == Cardinality(x[g])

Abs(v) == IF v < 0 THEN -v ELSE v

(* the least value the constraints leave to a term's variable under x *)
TermLo(term, G, S, cfg, x) ==
    CASE term.var = "coverage_slack" ->
           Max2(0, required_total(S[term.s]) - Cardinality(AssignedTo(x, term.s)))
      [] term.var = "consec_slack" ->
           WindowSum(S, x, term.g, term.s, Len(sorted_days(S)))
      [] term.var = "pair_slack" ->
           IF term.s \in x[term.g] /\ term.j \in x[term.g] THEN 1 ELSE 0
      [] term.var = "fairness_span" ->
           SetMax({guard_total(x, g) : g \in Indexes(G)})
               - SetMin({guard_total(x, g) : g \in Indexes(G)})
      [] term.var = "deviation" ->
           Abs(guard_total(x, term.g) - expected_assignments(S, cfg))

(* the upper end of the variable's declared domain *)
TermHi(term, S) ==
    CASE term.var = "coverage_slack" -> required_total(S[term.s])
      [] term.var = "consec_slack" -> Len(sorted_days(S)) - term.s + 1
      [] term.var = "pair_slack" -> 1
      [] term.var = "fairness_span" -> Len(S)
      [] term.var = "deviation" -> Len(S)

(* ------------------------------- solver -------------------------------- *)
AllX(G, S) == [Indexes(G) -> SUBSET Indexes(S)]

(* every constraint solve adds over the assignment variables *)
ConstraintsOK(G, S, cfg, x) ==
    /\ SkillOK(G, S, cfg, x)
    /\ RoleCoverageOK(G, S, cfg, x)
    /\ CoverageOK(S, cfg, x)
    /\ ConsecutiveOK(G, S, cfg, x)
    /\ PairsOK(G, S, cfg, x)

(* every auxiliary variable has a value left in its declared domain *)
DomainsOK(terms, G, S, cfg, x) ==
    \A k \in Indexes(terms) : TermLo(terms[k], G, S, cfg, x) <= TermHi(terms[k], S)

FeasibleX(G, S, cfg) ==
    LET terms == penalty_terms(G, S, cfg)
    IN  {x \in AllX(G, S) : ConstraintsOK(G, S, cfg, x) /\ DomainsOK(terms, G, S, cfg, x)}

(* sum(weight * term) at given values *)
Objective(terms, vals) ==
    SeqSum([k \in Indexes(terms) |-> terms[k].weight * vals[k]])

LoVals(terms, G, S, cfg, x) ==
    [k \in Indexes(terms) |-> TermLo(terms[k], G, S, cfg, x)]

(* the value tuples a solution may carry: any in range, or, for a proven   *)
(* optimum, the least value wherever the weight is not zero                *)
RECURSIVE ValChoices(_, _, _, _, _, _, _)
ValChoices(terms, k, G, S, cfg, x, optimal) ==
    IF k = 0 THEN {<<>>}
    ELSE LET lo == TermLo(terms[k], G, S, cfg, x)
             hi == IF optimal /\ terms[k].weight # 0 THEN lo ELSE TermHi(terms[k], S)
         IN  {Append(p, v) : p \in ValChoices(terms, k - 1, G, S, cfg, x, optimal),
                             v \in lo..hi}

NoX(G) == [g \in Indexes(G) |-> {}]

Outcome(status, x, vals) == [status |-> status, x |-> x, vals |-> vals]

(* what solver.Solve(model) can leave behind *)
SolverOutcomes(G, S, cfg, time_limit) ==
    LET terms == penalty_terms(G, S, cfg)
        feas == FeasibleX(G, S, cfg)
        cost(x) == Objective(terms, LoVals(terms, G, S, cfg, x))
        least == SetMin({cost(x) : x \in feas})
        best == {x \in feas : cost(x) = least}
        stopped == IF time_limit THEN {Outcome(UNKNOWN, NoX(G), <<>>)} ELSE {}
    IN  IF feas = {}
        THEN {Outcome(INFEASIBLE, NoX(G), <<>>)} \cup stopped
        ELSE UNION {{Outcome(OPTIMAL, x, v) :
                        v \in ValChoices(terms, Len(terms), G, S, cfg, x, TRUE)}
                    : x \in best}
             \cup (IF time_limit /\ terms # <<>>
                   THEN UNION {{Outcome(FEASIBLE, x, v) :
                                   v \in ValChoices(terms, Len(terms), G, S, cfg, x, FALSE)}
                               : x \in feas}
                   ELSE {})
             \cup stopped

(* --------------------------- result assembler -------------------------- *)
(* a slip: a solution found before the time limit not counted as one *)
feasible_status_optimal_only(status) == status = OPTIMAL

(* feasible = status in (cp_model.OPTIMAL, cp_model.FEASIBLE) *)
feasible_status(status) == status \in {OPTIMAL, FEASIBLE}

GuardIds(G) == {G[g].guard_id : g \in Indexes(G)}

SlotIds(S) == {S[s].slot_id : s \in Indexes(S)}

GuardIndex(G, guard_id) == CHOOSE g \in Indexes(G) : G[g].guard_id = guard_id

SlotIndex(S, slot_id) == CHOOSE s \in Indexes(S) : S[s].slot_id = slot_id

(* a slip: the slot ids of a guard listed latest first *)
assignments_output_latest_first(G, S, x) ==
    [gid \in GuardIds(G) |->
        LET order == SortedSeq(x[GuardIndex(G, gid)])
        IN  [k \in Indexes(order) |-> S[order[Len(order) + 1 - k]].slot_id]]

(* assignments_output[guard_id]: slot ids appended in (g_idx, s_idx) order *)
assignments_output(G, S, x) ==
    [gid \in GuardIds(G) |->
        LET order == SortedSeq(x[GuardIndex(G, gid)])
        IN  [k \in Indexes(order) |-> S[order[k]].slot_id]]

(* a slip: the scan keeps the last matching role instead of breaking *)
FirstRole_last_match(roles, remaining, guard) ==
    LET matching == {k \in Indexes(roles) :
                        remaining[k] > 0 /\ roles[k].role \in guard_role_set(guard)}
    IN  IF matching = {} THEN 0 ELSE SetMax(matching)

(* the first role, in declaration order, with remaining > 0 that the guard holds *)
FirstRole(roles, remaining, guard) ==
    LET matching == {k \in Indexes(roles) :
                        remaining[k] > 0 /\ roles[k].role \in guard_role_set(guard)}
    IN  IF matching = {} THEN 0 ELSE SetMin(matching)

(* a slip: the count of the picked role left as it was *)
Decrement_skipped(remaining, pick) == remaining

(* remaining_roles[role] -= 1 for the picked role, if any *)
Decrement(remaining, pick) ==
    IF pick = 0 THEN remaining ELSE [remaining EXCEPT ![pick] = @ - 1]

(* the greedy pass over one slot's assigned guards; tags maps guard index to role *)
RECURSIVE Attribute(_, _, _, _, _)
Attribute(G, roles, guard_indices, remaining, tags) ==
    IF guard_indices = <<>> THEN tags
    ELSE LET g == Head(guard_indices)
             pick == FirstRole(roles, remaining, G[g])
         IN  Attribute(G, roles, Tail(guard_indices), Decrement(remaining, pick),
                       tags @@ (g :> IF pick = 0 THEN NoRole ELSE roles[pick].role))

(* the role tags of the guards assigned to slot s *)
SlotTags(G, S, x, s) ==
    Attribute(G, S[s].required_roles, SortedSeq(AssignedTo(x, s)),
              [k \in Indexes(S[s].required_roles) |-> S[s].required_roles[k].count],
              <<>>)

RoleKeys(slot) == {slot.required_roles[k].role : k \in Indexes(slot.required_roles)}

RoleCount(slot, role) ==
    LET k == CHOOSE i \in Indexes(slot.required_roles) : slot.required_roles[i].role = role
    IN  slot.required_roles[k].count

(* coverage_stats[slot_id]["roles"]; the empty function when the key is absent *)
role_stats(G, S, x, s, feasible) ==
    [role \in RoleKeys(S[s]) |->
        [required |-> RoleCount(S[s], role),
         assigned |-> IF feasible
                      THEN LET tags == SlotTags(G, S, x, s)
                           IN  Cardinality({g \in DOMAIN tags : tags[g] = role})
                      ELSE 0]]

(* coverage_stats *)
coverage_stats(G, S, x, feasible) ==
    [sid \in SlotIds(S) |->
        LET s == SlotIndex(S, sid)
        IN  [required |-> required_total(S[s]),
             assigned |-> IF feasible THEN Cardinality(AssignedTo(x, s)) ELSE 0,
             roles |-> role_stats(G, S, x, s, feasible)]]

(* assignment_roles[guard_id][slot_id] *)
assignment_roles(G, S, x) ==
    [gid \in GuardIds(G) |->
        LET g == GuardIndex(G, gid)
        IN  [sid \in {S[s].slot_id : s \in x[g]} |->
                SlotTags(G, S, x, SlotIndex(S, sid))[g]]]

(* violation_summaries of a feasible solve: later terms overwrite a same name *)
violation_entries(terms, vals) ==
    LET hit == {k \in Indexes(terms) : vals[k] # 0}
    IN  [name \in {terms[k].name : k \in hit} |->
            LET last == SetMax({k \in hit : terms[k].name = name})
            IN  [value |-> vals[last], penalty |-> terms[last].weight * vals[last]]]

StatusKey == TermName("status", None, "", "", None)

violation_summaries(terms, out) ==
    IF terms # <<>> /\ feasible_status(out.status)
    THEN violation_entries(terms, out.vals)
    ELSE IF ~feasible_status(out.status)
    THEN (StatusKey :> [value |-> out.status, penalty |-> 0])
    ELSE <<>>

objective_value(terms, out) ==
    IF feasible_status(out.status) /\ terms # <<>> THEN Objective(terms, out.vals)
    ELSE IF feasible_status(out.status) THEN 0
    ELSE None

(* the RosterResult solve returns for a solver outcome *)
RosterResult(G, S, cfg, out) ==
    LET feasible == feasible_status(out.status)
        terms == penalty_terms(G, S, cfg)
    IN  [feasible |-> feasible,
         assignments |-> assignments_output(G, S, out.x),
         objective_value |-> objective_value(terms, out),
         violation_summaries |-> violation_summaries(terms, out),
         coverage |-> coverage_stats(G, S, out.x, feasible),
         status |-> StatusName(out.status),
         solver_statistics |-> out.status # UNKNOWN,
         assignment_roles |-> assignment_roles(G, S, out.x)]

(* every result solve(guards, demand_slots, time_limit_seconds) can return *)
SolveResults(G, S, cfg, time_limit) ==
    {RosterResult(G, S, cfg, out) : out \in SolverOutcomes(G, S, cfg, time_limit)}

(* ---------------------------- staffing search -------------------------- *)
(* a slip: the guard_id left out of the sort key *)
KeyLess_priority_only(a, b) == a.priority < b.priority

(* key=lambda g: (g.priority, g.guard_id) *)
KeyLess(a, b) ==
    \/ a.priority < b.priority
    \/ a.priority = b.priority /\ a.guard_id < b.guard_id

(* sorted(guards, key=...): stable, so equal keys keep their input order *)
RECURSIVE SortedBy(_)
SortedBy(G) ==
    IF G = <<>> THEN <<>>
    ELSE LET first == SetMin({i \in Indexes(G) : \A j \in Indexes(G) : ~KeyLess(G[j], G[i])})
             rest == [k \in 1..(Len(G) - 1) |-> IF k < first THEN G[k] ELSE G[k + 1]]
         IN  <<G[first]>> \o SortedBy(rest)

(* ordered_guards[:size] *)
Prefix(G, size) == SubSeq(G, 1, IF size < Len(G) THEN size ELSE Len(G))

(* max_size = maximum or len(ordered_guards) *)
MaxSize(maximum, G) == IF maximum = None \/ maximum = 0 THEN Len(G) ELSE maximum

(* a slip: the minimum taken as given *)
FirstSize_unclamped(minimum) == minimum

(* range(max(minimum, 1), max_size + 1) starts here *)
FirstSize(minimum) == Max2(minimum, 1)

(* ------------------------------ the state ------------------------------ *)
VARIABLES
    guards,           \* the guard pool handed to the call
    demand_slots,     \* the demand slots handed to the call
    config,           \* the engine's constraint_config
    time_limit,       \* TRUE iff time_limit_seconds is set
    minimum,          \* find_minimum_staffing arguments
    maximum,
    pc,               \* "ready", "solved", "loop", "break", "returned"
    result,           \* what solve returned
    ordered_guards,   \* locals of find_minimum_staffing
    size,
    attempts,
    feasible_result,
    feasible_size,
    staffing          \* what find_minimum_staffing returned

vars == <<guards, demand_slots, config, time_limit, minimum, maximum, pc, result,
          ordered_guards, size, attempts, feasible_result, feasible_size, staffing>>

inputs == <<guards, demand_slots, config, time_limit, minimum, maximum>>

(* ------------------------------ operations ----------------------------- *)
(* RosterEngine.solve on the whole pool *)
Solve ==
    /\ pc = "ready"
    /\ \E r \in SolveResults(guards, demand_slots, config, time_limit) :
          result' = r
    /\ pc' = "solved"
    /\ UNCHANGED <<inputs, ordered_guards, size, attempts, feasible_result,
                   feasible_size, staffing>>

(* find_minimum_staffing up to the loop *)
FindMinimumStaffing ==
    /\ pc = "ready"
    /\ ordered_guards' = SortedBy(guards)
    /\ size' = FirstSize(minimum)
    /\ attempts' = <<>>
    /\ feasible_result' = Absent
    /\ feasible_size' = None
    /\ pc' = "loop"
    /\ UNCHANGED <<inputs, result, staffing>>

(* one pass of the loop body *)
StaffingAttempt ==
    /\ pc = "loop"
    /\ size <= MaxSize(maximum, ordered_guards)
    /\ \E r \in SolveResults(Prefix(ordered_guards, size), demand_slots, config,
                            time_limit) :
          /\ attempts' = (size :> r) @@ attempts
          /\ IF r.feasible
             THEN /\ feasible_result' = r
                  /\ feasible_size' = size
                  /\ pc' = "break"
                  /\ size' = size
             ELSE /\ UNCHANGED <<feasible_result, feasible_size, pc>>
                  /\ size' = size + 1
    /\ UNCHANGED <<inputs, result, ordered_guards, staffing>>

(* the return after the loop ended or broke *)
StaffingReturn ==
    /\ \/ pc = "break"
       \/ pc = "loop" /\ size > MaxSize(maximum, ordered_guards)
    /\ staffing' = [minimum_guards |-> feasible_size, roster |-> feasible_result,
                    attempts |-> attempts]
    /\ pc' = "returned"
    /\ UNCHANGED <<inputs, result, ordered_guards, size, attempts, feasible_result,
                   feasible_size>>

Next == Solve \/ FindMinimumStaffing \/ StaffingAttempt \/ StaffingReturn

(* ------------------------------- inputs -------------------------------- *)
GuardProfile(guard_id, skills, roles, priority) ==
    [guard_id |-> guard_id, skills |-> skills, roles |-> roles, priority |-> priority]

DemandSlot(slot_id, start, end, required_guards, required_skill, required_roles) ==
    [slot_id |-> slot_id, start |-> start, end |-> end,
     required_guards |-> required_guards, required_skill |-> required_skill,
     required_roles |-> required_roles]

RoleNeed(role, count) == [role |-> role, count |-> count]

SlotNames == <<"A", "B", "C", "D", "E">>

(* soft weights with only the coverage shortfall priced *)
CoverageOnlySoft ==
    [DefaultSoft EXCEPT !.consecutive_day_violation = 0, !.fairness_penalty = 0]

(* the state before a call: nothing solved, nothing returned *)
Fresh ==
    /\ pc = "ready"
    /\ result = Absent
    /\ ordered_guards = <<>>
    /\ size = 0
    /\ attempts = <<>>
    /\ feasible_result = Absent
    /\ feasible_size = None
    /\ staffing = Absent

(* role composition and skills: one slot, guards with every role and skill set *)
RoleNeeds ==
    {<<>>, <<RoleNeed("Leader", 1)>>, <<RoleNeed("Leader", 1), RoleNeed("Tech", 1)>>,
     <<RoleNeed("Tech", 1), RoleNeed("Leader", 1)>>, <<RoleNeed("Tech", MaxRequired)>>}

RoleGuards ==
    UNION {[1..n -> {GuardProfile(0, sk, ro, 0) :
                        sk \in SUBSET {"Tech"}, ro \in SUBSET {"Leader", "Tech"}}]
           : n \in 1..MaxGuards}

WithIds(G) == [g \in Indexes(G) |-> [G[g] EXCEPT !.guard_id = g]]

InitRoles ==
    /\ guards \in {WithIds(G) : G \in RoleGuards}
    /\ demand_slots \in
          {<<DemandSlot("A", 8, 12, rg, sk, rr)>> :
              rg \in 0..MaxRequired, sk \in {NoSkill, "Tech"}, rr \in RoleNeeds}
    /\ config \in
          {[DefaultConfig EXCEPT !.hard.enforce_coverage = ec,
                                 !.hard.enforce_skill_requirements = es,
                                 !.hard.enforce_role_coverage = er,
                                 !.soft = CoverageOnlySoft] :
              ec \in BOOLEAN, es \in BOOLEAN, er \in BOOLEAN}
    /\ time_limit \in BOOLEAN
    /\ minimum = 1
    /\ maximum = None
    /\ Fresh

SpecRoles == InitRoles /\ [][Next]_vars

(* rest and break: two slots at every small start and length, plain guards *)
MaxStart == 3
MaxGap == 2
FirstHour == 8
Durations == {2, 4}

PlainGuards(n) == [g \in 1..n |-> GuardProfile(g, {}, {}, 0)]

TimedSlots ==
    [1..MaxSlots -> {[start |-> FirstHour + st, end |-> FirstHour + st + du] :
                        st \in 0..MaxStart, du \in Durations}]

InitRest ==
    /\ guards \in {PlainGuards(n) : n \in 1..MaxGuards}
    /\ demand_slots \in
          {[s \in 1..MaxSlots |->
               DemandSlot(SlotNames[s], ts[s].start, ts[s].end, 1, NoSkill, <<>>)] :
              ts \in TimedSlots}
    /\ config \in
          {[DefaultConfig EXCEPT !.hard.enforce_coverage = ec,
                                 !.hard.min_break_hours = mb,
                                 !.hard.rest_window_hours = rw,
                                 !.soft = CoverageOnlySoft] :
              ec \in BOOLEAN, mb \in {None} \cup 1..MaxGap, rw \in {None} \cup 1..MaxGap}
    /\ time_limit \in BOOLEAN
    /\ minimum = 1
    /\ maximum = None
    /\ Fresh

SpecRest == InitRest /\ [][Next]_vars

(* consecutive days: slots spread over a few days, some starting late *)
MaxDaySlots == 3
MaxDay == 2
MaxConsec == 2
LateHour == 22
ShiftHours == 4

DayStarts(s) ==
    {day * HoursPerDay + hour :
        day \in 0..MaxDay, hour \in IF s = 1 THEN {FirstHour, LateHour} ELSE {FirstHour}}

DayStartLists ==
    {st \in [1..MaxDaySlots -> DayStarts(1)] : \A s \in 1..MaxDaySlots : st[s] \in DayStarts(s)}

InitDays ==
    /\ guards \in {PlainGuards(n) : n \in 1..MaxGuards}
    /\ demand_slots \in
          {[s \in 1..MaxDaySlots |->
               DemandSlot(SlotNames[s], st[s], st[s] + ShiftHours, 1, NoSkill, <<>>)] :
              st \in DayStartLists}
    /\ config \in
          {[DefaultConfig EXCEPT !.hard.enforce_coverage = ec,
                                 !.hard.max_consecutive_days = mc,
                                 !.soft = CoverageOnlySoft] :
              ec \in BOOLEAN, mc \in {None} \cup 0..MaxConsec}
    /\ time_limit \in (IF config.hard.enforce_coverage THEN BOOLEAN ELSE {FALSE})
    /\ minimum = 1
    /\ maximum = None
    /\ Fresh

SpecDays == InitDays /\ [][Next]_vars

(* staffing search: a pool in either id order, with priorities and skills, *)
(* one slot, every small minimum and maximum                               *)
MaxPool == 3

PoolGuards ==
    UNION {[1..n -> {GuardProfile(0, sk, {}, pr) :
                        sk \in SUBSET {"Tech"}, pr \in 0..MaxPriority}]
           : n \in 1..MaxPool}

WithIdsReversed(G) == [g \in Indexes(G) |-> [G[g] EXCEPT !.guard_id = Len(G) + 1 - g]]

InitStaffing ==
    /\ guards \in {WithIds(G) : G \in PoolGuards} \cup {WithIdsReversed(G) : G \in PoolGuards}
    /\ demand_slots \in
          {<<DemandSlot("A", 8, 12, rg, sk, <<>>)>> :
              rg \in 1..MaxRequired, sk \in {NoSkill, "Tech"}}
    /\ config = [DefaultConfig EXCEPT !.soft = CoverageOnlySoft]
    /\ time_limit \in BOOLEAN
    /\ minimum \in 0..2
    /\ maximum \in {None, 0, 2, MaxPool + 1}
    /\ Fresh

SpecStaffing == InitStaffing /\ [][Next]_vars

(* penalties: adjacent four-hour slots on either of two days, every soft   *)
(* weight profile, with and without coverage enforced and a fairness target *)
S5Soft == [DefaultSoft EXCEPT !.coverage_shortfall = 500]

ZeroSoft ==
    [coverage_shortfall |-> 0, min_break_violation |-> 0, rest_window_violation |-> 0,
     consecutive_day_violation |-> 0, fairness_penalty |-> 0]

SoftProfiles == {DefaultSoft, S5Soft, ZeroSoft, CoverageOnlySoft}

TargetHours == {None, 0, 4, 8, 16}

PenaltySlots ==
    UNION {[1..m -> [day : 0..1, required_guards : 0..MaxRequired]] : m \in 1..MaxSlots}

InitPenalty ==
    /\ guards \in {PlainGuards(n) : n \in 1..MaxGuards}
    /\ demand_slots \in
          {[s \in Indexes(ps) |->
               LET start == ps[s].day * HoursPerDay + FirstHour + ShiftHours * (s - 1)
               IN  DemandSlot(SlotNames[s], start, start + ShiftHours,
                              ps[s].required_guards, NoSkill, <<>>)] :
              ps \in PenaltySlots}
    /\ config \in
          {[hard |-> [DefaultHard EXCEPT !.enforce_coverage = ec, !.min_break_hours = mb],
            soft |-> sw, fairness_target_hours |-> th] :
              ec \in BOOLEAN, mb \in {None, 1}, sw \in SoftProfiles, th \in TargetHours}
    /\ time_limit \in (IF Len(guards) * Len(demand_slots) = 1 THEN BOOLEAN ELSE {FALSE})
    /\ minimum = 1
    /\ maximum = None
    /\ Fresh

SpecPenalty == InitPenalty /\ [][Next]_vars

(* decoding: up to two slots with role needs in either declaration order,   *)
(* guards holding roles by declaration or by skill, solves that succeed,    *)
(* fail or are cut short                                                    *)
OutputProfiles ==
    {GuardProfile(0, {}, ro, 0) : ro \in SUBSET {"Leader", "Tech"}}
        \cup {GuardProfile(0, {"Tech"}, {}, 0)}

OutputGuards == UNION {[1..n -> OutputProfiles] : n \in 1..MaxGuards}

OutputNeeds ==
    {<<>>, <<RoleNeed("Leader", 1), RoleNeed("Tech", 1)>>,
     <<RoleNeed("Tech", 1), RoleNeed("Leader", 1)>>,
     <<RoleNeed("Leader", 0), RoleNeed("Tech", 1)>>,
     <<RoleNeed("Leader", MaxRequired)>>}

OutputSlots ==
    {<<DemandSlot("A", 8, 12, rg, NoSkill, rr)>> :
        rg \in {0, MaxRequired}, rr \in OutputNeeds}
    \cup {<<DemandSlot("A", 8, 12, rg, NoSkill, rr), DemandSlot("B", 12, 16, 1, NoSkill, rb)>> :
             rg \in {0, MaxRequired}, rr \in OutputNeeds,
             rb \in {<<>>, <<RoleNeed("Tech", 1), RoleNeed("Leader", 1)>>}}

InitOutputs ==
    /\ guards \in {WithIds(G) : G \in OutputGuards}
    /\ demand_slots \in OutputSlots
    /\ config \in
          {[DefaultConfig EXCEPT !.hard.enforce_coverage = ec,
                                 !.hard.enforce_role_coverage = er,
                                 !.soft = CoverageOnlySoft] :
              ec \in BOOLEAN, er \in BOOLEAN}
    /\ time_limit \in (IF Len(guards) = 1 THEN BOOLEAN ELSE {FALSE})
    /\ minimum = 1
    /\ maximum = None
    /\ Fresh

SpecOutputs == InitOutputs /\ [][Next]_vars

(* the default configuration: guards with or without a skill, four-hour    *)
(* slots on either of two days that may require it                         *)
SkilledGuards ==
    UNION {[1..n -> {GuardProfile(0, sk, {}, 0) : sk \in SUBSET {"Tech"}}]
           : n \in 1..MaxGuards}

DefaultSlots ==
    UNION {[1..m -> [day : 0..1, required_guards : 0..MaxRequired,
                     required_skill : {NoSkill, "Tech"}]] : m \in 1..MaxSlots}

InitDefaults ==
    /\ guards \in {WithIds(G) : G \in SkilledGuards}
    /\ demand_slots \in
          {[s \in Indexes(ds) |->
               LET start == ds[s].day * HoursPerDay + FirstHour + ShiftHours * (s - 1)
               IN  DemandSlot(SlotNames[s], start, start + ShiftHours,
                              ds[s].required_guards, ds[s].required_skill, <<>>)] :
              ds \in DefaultSlots}
    /\ config = DefaultConfig
    /\ time_limit \in (IF Len(guards) * Len(demand_slots) = 1 THEN BOOLEAN ELSE {FALSE})
    /\ minimum = 1
    /\ maximum = None
    /\ Fresh

SpecDefaults == InitDefaults /\ [][Next]_vars

(* break and rest against their weights: the slots of the rest family, the *)
(* two violation weights priced or not                                     *)
UnpricedPairs ==
    [CoverageOnlySoft EXCEPT !.min_break_violation = 0, !.rest_window_violation = 0]

InitPairs ==
    /\ guards \in {PlainGuards(n) : n \in 1..MaxGuards}
    /\ demand_slots \in
          {[s \in 1..MaxSlots |->
               DemandSlot(SlotNames[s], ts[s].start, ts[s].end, 1, NoSkill, <<>>)] :
              ts \in TimedSlots}
    /\ config \in
          {[DefaultConfig EXCEPT !.hard.enforce_coverage = ec,
                                 !.hard.min_break_hours = mb,
                                 !.hard.rest_window_hours = rw,
                                 !.soft = sw] :
              ec \in BOOLEAN, mb \in {None} \cup 1..MaxGap, rw \in {None} \cup 1..MaxGap,
              sw \in {CoverageOnlySoft, UnpricedPairs}}
    /\ time_limit = FALSE
    /\ minimum = 1
    /\ maximum = None
    /\ Fresh

SpecPairs == InitPairs /\ [][Next]_vars

(* all the inputs above *)
Init ==
    \/ InitRoles \/ InitRest \/ InitDays \/ InitStaffing \/ InitPenalty
    \/ InitOutputs \/ InitDefaults \/ InitPairs

Spec == Init /\ [][Next]_vars

(* ------------------------------ properties ----------------------------- *)
Range(q) == {q[i] : i \in DOMAIN q}

(* every RosterResult produced so far, with the guards its solve was given *)
Calls ==
    (IF result # Absent THEN {[G |-> guards, r |-> result]} ELSE {})
        \cup {[G |-> Prefix(ordered_guards, k), r |-> attempts[k]] : k \in DOMAIN attempts}

(* the guard ids a result assigns to a slot id *)
GuardsOn(r, slot_id) == {gid \in DOMAIN r.assignments : slot_id \in Range(r.assignments[gid])}

GuardById(G, guard_id) == G[GuardIndex(G, guard_id)]

(* C1: a feasible result under enforce_role_coverage reports, for every slot *)
(* and every required role, at least as many role-tagged guards as required. *)
C1_RoleLinesReported ==
    \A c \in Calls :
        (c.r.feasible /\ config.hard.enforce_role_coverage) =>
            \A sid \in DOMAIN c.r.coverage : \A role \in DOMAIN c.r.coverage[sid].roles :
                c.r.coverage[sid].roles[role].assigned
                    >= c.r.coverage[sid].roles[role].required

(* the effective requirement of a slot, read off the input *)
EffectiveRequirement(slot) ==
    LET by_role == SeqSum([k \in Indexes(slot.required_roles) |->
                              slot.required_roles[k].count])
    IN  IF slot.required_guards >= by_role THEN slot.required_guards ELSE by_role

(* C5: a feasible result under enforce_coverage reports for every slot       *)
(* coverage.required = max(required_guards, sum of role counts), and         *)
(* coverage.assigned, the number of guards assigned to it, is at least that. *)
C5_CoverageMet ==
    \A c \in Calls :
        (c.r.feasible /\ config.hard.enforce_coverage) =>
            \A s \in Indexes(demand_slots) :
                LET sid == demand_slots[s].slot_id
                IN  /\ c.r.coverage[sid].required = EffectiveRequirement(demand_slots[s])
                    /\ c.r.coverage[sid].assigned = Cardinality(GuardsOn(c.r, sid))
                    /\ c.r.coverage[sid].assigned >= EffectiveRequirement(demand_slots[s])

(* a feasible covered slot whose role counts exceed required_guards *)
C5_Witness ==
    /\ result # Absent
    /\ result.feasible
    /\ config.hard.enforce_coverage
    /\ \E s \in Indexes(demand_slots) :
          /\ total_role_required(demand_slots[s]) > demand_slots[s].required_guards
          /\ Cardinality(GuardsOn(result, demand_slots[s].slot_id)) >= 2

(* a guard without the slot's required skill is on the slot *)
SkillMismatch(c) ==
    \E s \in Indexes(demand_slots) : \E gid \in GuardsOn(c.r, demand_slots[s].slot_id) :
        /\ demand_slots[s].required_skill # NoSkill
        /\ demand_slots[s].required_skill \notin GuardById(c.G, gid).skills

PenaltyKinds ==
    {"coverage_shortfall", "consecutive_day_violation", "min_break_violation",
     "rest_window_violation", "fairness_span", "fairness_target_deviation", "status"}

(* C7: under enforce_skill_requirements a feasible result has no guard on a *)
(* slot whose required skill it lacks; without it no violation entry is     *)
(* about skills, whatever the assignment.                                    *)
C7_SkillGate ==
    \A c \in Calls :
        /\ (c.r.feasible /\ config.hard.enforce_skill_requirements) => ~SkillMismatch(c)
        /\ \A name \in DOMAIN c.r.violation_summaries : name.kind \in PenaltyKinds

(* enforced: a skilled guard is on a slot that requires the skill, next to an *)
(* unskilled guard that is kept off it                                        *)
C7_Witness ==
    /\ result # Absent
    /\ result.feasible
    /\ config.hard.enforce_skill_requirements
    /\ \E s \in Indexes(demand_slots) :
          /\ demand_slots[s].required_skill # NoSkill
          /\ GuardsOn(result, demand_slots[s].slot_id) # {}
          /\ \E g \in Indexes(guards) :
                demand_slots[s].required_skill \notin guards[g].skills

(* not enforced: an unskilled guard is assigned and the objective is zero *)
C7_WitnessFree ==
    /\ result # Absent
    /\ result.feasible
    /\ ~config.hard.enforce_skill_requirements
    /\ SkillMismatch([G |-> guards, r |-> result])
    /\ result.objective_value = 0
    /\ result.violation_summaries = <<>>

(* input slot by id *)
SlotById(slot_id) == demand_slots[SlotIndex(demand_slots, slot_id)]

(* the pairs of distinct slots a result gives to one guard *)
SharedPairs(r) ==
    {p \in SlotIds(demand_slots) \X SlotIds(demand_slots) :
        /\ p[1] # p[2]
        /\ \E gid \in DOMAIN r.assignments :
              p[1] \in Range(r.assignments[gid]) /\ p[2] \in Range(r.assignments[gid])}

Overlap(a, b) == a.start < b.end /\ b.start < a.end

(* scenario S4: one guard, A(08:00-12:00), B(10:00-14:00), rest window 1 h, *)
(* coverage enforced, one guard required on each                            *)
ScenarioS4 ==
    /\ Len(guards) = 1
    /\ Len(demand_slots) = 2
    /\ demand_slots[1].start = 8 /\ demand_slots[1].end = 12
    /\ demand_slots[2].start = 10 /\ demand_slots[2].end = 14
    /\ demand_slots[1].required_guards = 1 /\ demand_slots[2].required_guards = 1
    /\ config.hard.rest_window_hours = 1
    /\ config.hard.enforce_coverage

(* C2: with min_break_hours or rest_window_hours set, no feasible result   *)
(* gives one guard two overlapping slots; scenario S4 is infeasible.       *)
C2_NoOverlapWhenConfigured ==
    /\ \A c \in Calls :
          (/\ c.r.feasible
           /\ config.hard.min_break_hours # None \/ config.hard.rest_window_hours # None)
          => \A p \in SharedPairs(c.r) : ~Overlap(SlotById(p[1]), SlotById(p[2]))
    /\ (ScenarioS4 /\ result # Absent) => ~result.feasible

(* C3: with min_break_hours = B no feasible result gives one guard two     *)
(* distinct slots whose gap, start of one minus end of the other, lies     *)
(* strictly between -B and B, whichever of the two is listed first.        *)
C3_MinBreakEitherDirection ==
    \A c \in Calls :
        (c.r.feasible /\ config.hard.min_break_hours # None) =>
            \A p \in SharedPairs(c.r) :
                LET gap == SlotById(p[1]).start - SlotById(p[2]).end
                IN  ~(-config.hard.min_break_hours < gap /\ gap < config.hard.min_break_hours)

(* C4: with rest_window_hours = W no feasible result gives one guard two   *)
(* distinct slots with 0 <= (start of one - end of the other) < W, in      *)
(* either direction and for either input order.                            *)
C4_RestWindow ==
    \A c \in Calls :
        (c.r.feasible /\ config.hard.rest_window_hours # None) =>
            \A p \in SharedPairs(c.r) :
                LET gap == SlotById(p[1]).start - SlotById(p[2]).end
                IN  ~(0 <= gap /\ gap < config.hard.rest_window_hours)

(* a feasible roster where the later slot is listed first, the two are     *)
(* closer than the rest window, both are staffed, by different guards      *)
C4_Witness ==
    /\ result # Absent
    /\ result.feasible
    /\ config.hard.rest_window_hours # None
    /\ config.hard.min_break_hours = None
    /\ Len(demand_slots) >= 2
    /\ LET gap == demand_slots[1].start - demand_slots[2].end
       IN  0 <= gap /\ gap < config.hard.rest_window_hours
    /\ GuardsOn(result, demand_slots[1].slot_id) # {}
    /\ GuardsOn(result, demand_slots[2].slot_id) # {}

(* the active days of the input: distinct start days *)
ActiveDays == {demand_slots[s].start \div 24 : s \in Indexes(demand_slots)}

(* runs of k consecutive entries of the sorted list of active days *)
DayWindows(k) ==
    {W \in SUBSET ActiveDays :
        /\ Cardinality(W) = k
        /\ \A d \in ActiveDays :
              (\E a \in W : a <= d) /\ (\E b \in W : d <= b) => d \in W}

(* the guard is assigned a slot starting on the day *)
PresentOn(r, gid, day) ==
    \E sid \in Range(r.assignments[gid]) : SlotById(sid).start \div 24 = day

(* C6: with max_consecutive_days = C every guard of a feasible result is   *)
(* absent on at least one day of every window of C+1 consecutive active    *)
(* days.                                                                   *)
C6_MaxConsecutiveDays ==
    \A c \in Calls :
        (c.r.feasible /\ config.hard.max_consecutive_days # None) =>
            \A gid \in DOMAIN c.r.assignments :
                \A W \in DayWindows(config.hard.max_consecutive_days + 1) :
                    \E day \in W : ~PresentOn(c.r, gid, day)

(* three active days, at most one in a row allowed, and a guard works the  *)
(* first and the third                                                     *)
C6_Witness ==
    /\ result # Absent
    /\ result.feasible
    /\ config.hard.max_consecutive_days = 1
    /\ Cardinality(ActiveDays) = 3
    /\ \E gid \in DOMAIN result.assignments :
          Cardinality({day \in ActiveDays : PresentOn(result, gid, day)}) = 2

(* the guards in (priority, guard_id) order, as the specification words it *)
IsPriorityOrder(q) ==
    /\ Len(q) = Len(guards)
    /\ Range(q) = Range(guards)
    /\ \A i \in Indexes(q) : \A j \in Indexes(q) :
          i < j => \/ q[i].priority < q[j].priority
                   \/ q[i].priority = q[j].priority /\ q[i].guard_id < q[j].guard_id

PriorityOrder == CHOOSE q \in [Indexes(guards) -> Range(guards)] : IsPriorityOrder(q)

FirstOf(q, k) == [i \in 1..(IF k < Len(q) THEN k ELSE Len(q)) |-> q[i]]

(* the sizes the search is to try *)
SizeRange ==
    (IF minimum >= 1 THEN minimum ELSE 1)
        ..(IF maximum = None \/ maximum = 0 THEN Len(guards) ELSE maximum)

(* the guards picked by a set of input positions, in input order *)
Picked(P) == LET order == SortedSeq(P) IN [i \in Indexes(order) |-> guards[order[i]]]

(* C8 as claimed: whenever some subset of k guards, k in the range, admits *)
(* a feasible roster, the search returns a minimum_guards of at most k.    *)
C8_SmallestSubset ==
    (pc = "returned" /\ ~time_limit) =>
        \A P \in SUBSET Indexes(guards) :
            (/\ Cardinality(P) \in SizeRange
             /\ FeasibleX(Picked(P), demand_slots, config) # {})
            => /\ staffing.minimum_guards # None
               /\ staffing.minimum_guards <= Cardinality(P)

(* C8 as amended: the search is minimal over the prefixes of the priority  *)
(* order.  A returned minimum_guards is a size whose attempt was feasible, *)
(* and, the solver not being cut short by a time limit, it is at most any  *)
(* k in the range whose first k guards admit a feasible roster.            *)
C8_SmallestPrefix ==
    pc = "returned" =>
        /\ staffing.minimum_guards # None =>
              /\ staffing.minimum_guards \in SizeRange
              /\ staffing.attempts[staffing.minimum_guards].feasible
              /\ FeasibleX(FirstOf(PriorityOrder, staffing.minimum_guards),
                           demand_slots, config) # {}
        /\ ~time_limit =>
              \A k \in SizeRange :
                  FeasibleX(FirstOf(PriorityOrder, k), demand_slots, config) # {}
                  => /\ staffing.minimum_guards # None
                     /\ staffing.minimum_guards <= k

(* the search returned 2 although a single guard of the pool would do *)
C8_Witness ==
    /\ pc = "returned"
    /\ ~time_limit
    /\ staffing.minimum_guards = 2
    /\ 1 \in SizeRange
    /\ \E g \in Indexes(guards) : FeasibleX(<<guards[g]>>, demand_slots, config) # {}
    /\ guards # PriorityOrder

(* what C9 says of the value find_minimum_staffing returns *)
C9_Returned ==
    pc = "returned" =>
        LET tried == DOMAIN staffing.attempts
            lo == IF minimum >= 1 THEN minimum ELSE 1
            hi == IF maximum = None \/ maximum = 0 THEN Len(guards) ELSE maximum
        IN  /\ \A k \in tried :
                  DOMAIN staffing.attempts[k].assignments
                      = {PriorityOrder[i].guard_id : i \in 1..(IF k < Len(guards) THEN k
                                                                ELSE Len(guards))}
            /\ \/ tried = {} /\ lo > hi
               \/ \E last \in lo..hi :
                     /\ tried = lo..last
                     /\ \A k \in lo..(last - 1) : ~staffing.attempts[k].feasible
                     /\ IF staffing.attempts[last].feasible
                        THEN /\ staffing.minimum_guards = last
                             /\ staffing.roster = staffing.attempts[last]
                        ELSE /\ last = hi
                             /\ staffing.minimum_guards = None
                             /\ staffing.roster = Absent

(* C9: the search sorts by (priority, guard_id), solves the first size     *)
(* guards for size = max(minimum,1) upward to (maximum or n) and stops at  *)
(* the first feasible attempt: the attempts are the contiguous sizes       *)
(* tried, all but the last infeasible, minimum_guards and roster are the   *)
(* last size and result iff it is feasible and absent otherwise with every *)
(* size of the range tried, and no solve follows a feasible one.           *)
C9_SearchOrder ==
    /\ []C9_Returned
    /\ [][(\E k \in DOMAIN attempts : attempts[k].feasible) => attempts' = attempts]_vars

(* sizes 1 and 2 tried, the first infeasible, the second feasible, on a    *)
(* pool that the sort reorders                                             *)
C9_Witness ==
    /\ pc = "returned"
    /\ DOMAIN staffing.attempts = {1, 2}
    /\ ~staffing.attempts[1].feasible
    /\ staffing.attempts[2].feasible
    /\ staffing.minimum_guards = 2
    /\ Len(guards) = 3
    /\ guards # PriorityOrder

RECURSIVE PenaltySum(_, _)
PenaltySum(summaries, names) ==
    IF names = {} THEN 0
    ELSE LET name == CHOOSE n \in names : TRUE
         IN  summaries[name].penalty + PenaltySum(summaries, names \ {name})

(* the configured weight of the kind of term a summary entry is named for *)
WeightOfKind(kind) ==
    CASE kind = "coverage_shortfall" -> config.soft.coverage_shortfall
      [] kind = "consecutive_day_violation" -> config.soft.consecutive_day_violation
      [] kind = "min_break_violation" -> config.soft.min_break_violation
      [] kind = "rest_window_violation" -> config.soft.rest_window_violation
      [] kind \in {"fairness_span", "fairness_target_deviation"} ->
           config.soft.fairness_penalty

(* C10: in a feasible result the penalties of violation_summaries add up   *)
(* to objective_value, every entry carrying a value > 0 and                *)
(* penalty = weight * value.                                               *)
C10_PenaltiesSumToObjective ==
    \A c \in Calls :
        c.r.feasible =>
            /\ PenaltySum(c.r.violation_summaries, DOMAIN c.r.violation_summaries)
                  = c.r.objective_value
            /\ \A name \in DOMAIN c.r.violation_summaries :
                  /\ c.r.violation_summaries[name].value > 0
                  /\ c.r.violation_summaries[name].penalty
                        = WeightOfKind(name.kind) * c.r.violation_summaries[name].value

(* a feasible result that charges two coverage shortfalls and a fairness term *)
C10_Witness ==
    /\ result # Absent
    /\ result.feasible
    /\ result.objective_value > 0
    /\ Cardinality({name \in DOMAIN result.violation_summaries :
                       name.kind = "coverage_shortfall"}) = 2
    /\ \E name \in DOMAIN result.violation_summaries :
          name.kind \in {"fairness_span", "fairness_target_deviation"}

(* the position of a slot id in the input *)
SlotPosition(slot_id) == CHOOSE s \in Indexes(demand_slots) : demand_slots[s].slot_id = slot_id

(* C11: in every result, feasible or not, the keys of assignments are the  *)
(* guard ids given to the solve, the keys of coverage are the input slot   *)
(* ids, assignment_roles[g] has key s exactly when s is in assignments[g], *)
(* and each assignments[g] follows the input slot order without            *)
(* duplicates.                                                             *)
C11_OutputShape ==
    \A c \in Calls :
        /\ DOMAIN c.r.assignments = {c.G[g].guard_id : g \in Indexes(c.G)}
        /\ DOMAIN c.r.coverage = {demand_slots[s].slot_id : s \in Indexes(demand_slots)}
        /\ DOMAIN c.r.assignment_roles = DOMAIN c.r.assignments
        /\ \A gid \in DOMAIN c.r.assignments :
              LET list == c.r.assignments[gid]
              IN  /\ DOMAIN c.r.assignment_roles[gid] = Range(list)
                  /\ \A i \in Indexes(list) : \A j \in Indexes(list) :
                        i < j => SlotPosition(list[i]) < SlotPosition(list[j])

(* a feasible result where one guard holds both slots, in input order, and *)
(* another holds none                                                      *)
C11_Witness ==
    /\ result # Absent
    /\ result.feasible
    /\ \E gid \in DOMAIN result.assignments :
          /\ result.assignments[gid] = <<"A", "B">>
          /\ DOMAIN result.assignment_roles[gid] = {"A", "B"}
    /\ \E gid \in DOMAIN result.assignments : result.assignments[gid] = <<>>

(* the solver's code for a status name *)
CodeOfStatus(name) ==
    CASE name = "UNKNOWN" -> 0
      [] name = "MODEL_INVALID" -> 1
      [] name = "FEASIBLE" -> 2
      [] name = "INFEASIBLE" -> 3
      [] name = "OPTIMAL" -> 4

(* C12: feasible is true exactly when the status is OPTIMAL or FEASIBLE;   *)
(* under any other status the result has feasible = false, every           *)
(* assignments list empty, coverage[s].assigned = 0 and every              *)
(* coverage[s].roles[r].assigned = 0, no objective_value, and              *)
(* violation_summaries = {"status": {value: status code, penalty: 0}}.     *)
C12_InfeasibleResult ==
    \A c \in Calls :
        /\ c.r.feasible <=> c.r.status \in {"OPTIMAL", "FEASIBLE"}
        /\ c.r.status \notin {"OPTIMAL", "FEASIBLE"} =>
              /\ c.r.status \in {"UNKNOWN", "MODEL_INVALID", "INFEASIBLE"}
              /\ \A gid \in DOMAIN c.r.assignments : c.r.assignments[gid] = <<>>
              /\ \A sid \in DOMAIN c.r.coverage :
                    /\ c.r.coverage[sid].assigned = 0
                    /\ \A role \in DOMAIN c.r.coverage[sid].roles :
                          c.r.coverage[sid].roles[role].assigned = 0
              /\ c.r.objective_value = None
              /\ Cardinality(DOMAIN c.r.violation_summaries) = 1
              /\ \A name \in DOMAIN c.r.violation_summaries :
                    /\ name.kind = "status"
                    /\ c.r.violation_summaries[name]
                          = [value |-> CodeOfStatus(c.r.status), penalty |-> 0]

(* an INFEASIBLE result on slots that name roles *)
C12_Witness ==
    /\ result # Absent
    /\ result.status = "INFEASIBLE"
    /\ \E sid \in DOMAIN result.coverage : DOMAIN result.coverage[sid].roles # {}
    /\ Len(demand_slots) = 2

(* a solve cut short by its time limit, and one stopped at a solution it   *)
(* had not proved optimal                                                  *)
C12_WitnessUnknown == result # Absent /\ result.status = "UNKNOWN"

C12_WitnessFeasible ==
    /\ result # Absent
    /\ result.status = "FEASIBLE"
    /\ result.objective_value > 0

(* scenario S1: one guard with the skill, one slot A(08:00-12:00) requiring *)
(* one guard with that skill, the default configuration, no time limit      *)
ScenarioS1 ==
    /\ Len(guards) = 1
    /\ guards[1].skills = {"Tech"}
    /\ demand_slots = <<DemandSlot("A", 8, 12, 1, "Tech", <<>>)>>
    /\ config = DefaultConfig
    /\ ~time_limit

(* C13: in scenario S1 solve is feasible, assignments = {G1: [A]} and      *)
(* objective_value = 0.                                                    *)
C13_ScenarioS1 ==
    (ScenarioS1 /\ result # Absent) =>
        /\ result.feasible
        /\ result.assignments = (guards[1].guard_id :> <<"A">>)
        /\ result.objective_value = 0

(* what solve returns in scenario S1: the one day worked is charged *)
C13_Observed ==
    (ScenarioS1 /\ result # Absent) =>
        /\ result.feasible
        /\ result.assignments = (guards[1].guard_id :> <<"A">>)
        /\ result.objective_value = DefaultSoft.consecutive_day_violation
        /\ DOMAIN result.violation_summaries
              = {TermName("consecutive_day_violation", guards[1].guard_id, "", "", 0)}

(* scenario S5: one guard, two disjoint slots A(08:00-12:00), B(12:00-16:00) *)
(* each requiring one guard, coverage not enforced and priced at 500, a      *)
(* minimum break of one hour, everything else at its default                 *)
ScenarioS5 ==
    /\ Len(guards) = 1
    /\ demand_slots = <<DemandSlot("A", 8, 12, 1, NoSkill, <<>>),
                        DemandSlot("B", 12, 16, 1, NoSkill, <<>>)>>
    /\ config = [hard |-> [DefaultHard EXCEPT !.enforce_coverage = FALSE,
                                              !.min_break_hours = 1],
                 soft |-> [DefaultSoft EXCEPT !.coverage_shortfall = 500],
                 fairness_target_hours |-> None]
    /\ ~time_limit

(* the coverage_shortfall entries of a result *)
ShortfallEntries(r) ==
    {name \in DOMAIN r.violation_summaries : name.kind = "coverage_shortfall"}

(* the slots of a result with a guard on them *)
CoveredSlots(r) == {sid \in DOMAIN r.coverage : r.coverage[sid].assigned > 0}

(* C14: in scenario S5 solve is feasible, exactly one slot is covered,     *)
(* objective_value = 500 and violation_summaries has one                   *)
(* coverage_shortfall entry, with value 1 and penalty 500.                 *)
C14_ScenarioS5 ==
    (ScenarioS5 /\ result # Absent) =>
        /\ result.feasible
        /\ Cardinality(CoveredSlots(result)) = 1
        /\ result.objective_value = 500
        /\ Cardinality(ShortfallEntries(result)) = 1
        /\ \A name \in ShortfallEntries(result) :
              result.violation_summaries[name] = [value |-> 1, penalty |-> 500]

(* what solve returns in scenario S5: the shortfall and the day worked are *)
(* both charged                                                            *)
C14_Observed ==
    (ScenarioS5 /\ result # Absent) =>
        /\ result.feasible
        /\ Cardinality(CoveredSlots(result)) = 1
        /\ result.objective_value = 500 + DefaultSoft.consecutive_day_violation
        /\ Cardinality(ShortfallEntries(result)) = 1
        /\ \A name \in ShortfallEntries(result) :
              result.violation_summaries[name] = [value |-> 1, penalty |-> 500]

(* the positions, in the guard list of a call, of the guards on a slot *)
PositionsOn(c, slot_id) ==
    {p \in Indexes(c.G) : slot_id \in Range(c.r.assignments[c.G[p].guard_id])}

(* the greedy rule as stated: the guard at position p of the slot's        *)
(* assigned guards takes the first role, in the slot's declaration order,  *)
(* that it holds and that the earlier guards have not used up              *)
RECURSIVE GreedyTag(_, _, _)
GreedyTag(c, slot, p) ==
    LET needs == slot.required_roles
        earlier == {q \in PositionsOn(c, slot.slot_id) : q < p}
        used(k) == Cardinality({q \in earlier : GreedyTag(c, slot, q) = needs[k].role})
        open == {k \in DOMAIN needs :
                    /\ needs[k].count - used(k) > 0
                    /\ needs[k].role \in c.G[p].roles \cup c.G[p].skills}
    IN  IF open = {} THEN "None"
        ELSE needs[CHOOSE k \in open : \A other \in open : k <= other].role

(* scenario S3: G1 roles {Leader}, G2 roles {Tech}, one slot A requiring   *)
(* two guards, one Leader and one Tech, role coverage enforced             *)
ScenarioS3 ==
    /\ Len(guards) = 2
    /\ guards[1].roles = {"Leader"} /\ guards[1].skills = {}
    /\ guards[2].roles = {"Tech"} /\ guards[2].skills = {}
    /\ demand_slots = <<DemandSlot("A", 8, 12, 2, NoSkill,
                                   <<RoleNeed("Leader", 1), RoleNeed("Tech", 1)>>)>>
    /\ config.hard.enforce_role_coverage
    /\ config.hard.enforce_coverage
    /\ ~time_limit

(* C15: assignment_roles is the greedy function of the assignments and the *)
(* input order: on each slot the assigned guards, in input guard order,    *)
(* take the first role in declaration order with remaining count > 0 that  *)
(* is in their role set (roles and skills), or no role.  Being equal to a  *)
(* function of the inputs and the assignments, it is the same for any two  *)
(* solves with the same assignments; scenario S3 yields                    *)
(* {G1: {A: Leader}, G2: {A: Tech}}.                                       *)
C15_GreedyAttribution ==
    /\ \A c \in Calls :
          \A p \in Indexes(c.G) :
              LET tags == c.r.assignment_roles[c.G[p].guard_id]
              IN  \A sid \in DOMAIN tags : tags[sid] = GreedyTag(c, SlotById(sid), p)
    /\ (ScenarioS3 /\ result # Absent) =>
          /\ result.feasible
          /\ result.assignment_roles
                = (guards[1].guard_id :> [A |-> "Leader"])
                    @@ (guards[2].guard_id :> [A |-> "Tech"])

(* Tech declared before Leader: the first guard holds both and is tagged   *)
(* Tech, the second is on the slot too and is tagged Leader                *)
C15_Witness ==
    /\ result # Absent
    /\ result.feasible
    /\ Len(guards) = 2
    /\ guards[1].roles = {"Leader", "Tech"}
    /\ demand_slots[1].required_roles = <<RoleNeed("Tech", 1), RoleNeed("Leader", 1)>>
    /\ result.assignment_roles[guards[1].guard_id]["A"] = "Tech"
    /\ "A" \in DOMAIN result.assignment_roles[guards[2].guard_id]
    /\ result.assignment_roles[guards[2].guard_id]["A"] = "Leader"

(* scenario S3 solved *)
C15_WitnessS3 == ScenarioS3 /\ result # Absent /\ result.feasible

(* the same configuration with no fairness target *)
WithoutTarget == [config EXCEPT !.fairness_target_hours = None]

(* C16: with enforce_coverage and enforce_role_coverage off every solve is *)
(* feasible, whatever the soft weights and the fairness target; and a      *)
(* fairness target never makes infeasible a problem that is feasible       *)
(* without it.                                                             *)
C16_SoftNeverInfeasible ==
    \A c \in Calls :
        ~time_limit =>
            /\ (~config.hard.enforce_coverage /\ ~config.hard.enforce_role_coverage)
                  => c.r.feasible
            /\ FeasibleX(c.G, demand_slots, WithoutTarget) # {} => c.r.feasible

(* what solve does: infeasible exactly when the target's expected count    *)
(* leaves no value in 0..len(demand_slots) for a guard's deviation         *)
C16_Observed ==
    \A c \in Calls :
        (/\ ~time_limit
         /\ ~config.hard.enforce_coverage
         /\ ~config.hard.enforce_role_coverage)
        => (c.r.feasible <=>
               \/ config.soft.fairness_penalty = 0
               \/ config.fairness_target_hours = None
               \/ \E x \in AllX(c.G, demand_slots) :
                     /\ PairsOK(c.G, demand_slots, config, x)
                     /\ \A g \in Indexes(c.G) :
                           Abs(Cardinality(x[g]) - expected_assignments(demand_slots, config))
                               <= Len(demand_slots))

(* C17: a minimum_guards that find_minimum_staffing returns is at most the *)
(* number of guards supplied and is the number of guards given to the      *)
(* solve that produced roster, the number of keys of roster.assignments.   *)
C17_MinimumWithinPool ==
    (pc = "returned" /\ staffing.minimum_guards # None) =>
        /\ staffing.minimum_guards <= Len(guards)
        /\ staffing.minimum_guards = Cardinality(DOMAIN staffing.roster.assignments)

(* what find_minimum_staffing returns: the size of the loop, of which the  *)
(* slice passes on no more guards than there are                           *)
C17_Observed ==
    (pc = "returned" /\ staffing.minimum_guards # None) =>
        /\ Cardinality(DOMAIN staffing.roster.assignments)
              = (IF staffing.minimum_guards <= Len(guards)
                 THEN staffing.minimum_guards ELSE Len(guards))
        /\ staffing.minimum_guards > Len(guards) =>
              /\ maximum # None
              /\ maximum > Len(guards)
              /\ minimum > Len(guards) \/ time_limit

RECURSIVE RoleAssignedSum(_, _)
RoleAssignedSum(roles_map, keys) ==
    IF keys = {} THEN 0
    ELSE LET role == CHOOSE r \in keys : TRUE
         IN  roles_map[role].assigned + RoleAssignedSum(roles_map, keys \ {role})

(* the guard ids a result tags with some role on a slot *)
TaggedOn(r, slot_id) ==
    {gid \in DOMAIN r.assignment_roles :
        /\ slot_id \in DOMAIN r.assignment_roles[gid]
        /\ r.assignment_roles[gid][slot_id] # "None"}

(* the roles a slot names *)
RolesNamed(slot) == {slot.required_roles[k].role : k \in DOMAIN slot.required_roles}

(* C18: in every result, for every slot and role,                          *)
(* 0 <= roles[r].assigned <= roles[r].required; the role counts of a slot  *)
(* add up to at most coverage.assigned, each guard on it carrying at most  *)
(* one role; and a tagged role is in the guard's role set and in the       *)
(* slot's required_roles.                                                  *)
C18_RoleCountsBounded ==
    \A c \in Calls : \A sid \in DOMAIN c.r.coverage :
        LET stats == c.r.coverage[sid]
        IN  /\ \A role \in DOMAIN stats.roles :
                  /\ 0 <= stats.roles[role].assigned
                  /\ stats.roles[role].assigned <= stats.roles[role].required
            /\ RoleAssignedSum(stats.roles, DOMAIN stats.roles)
                  = Cardinality(TaggedOn(c.r, sid))
            /\ RoleAssignedSum(stats.roles, DOMAIN stats.roles) <= stats.assigned
            /\ \A gid \in TaggedOn(c.r, sid) :
                  LET tag == c.r.assignment_roles[gid][sid]
                      guard == GuardById(c.G, gid)
                  IN  /\ tag \in guard.roles \cup guard.skills
                      /\ tag \in RolesNamed(SlotById(sid))

(* two guards that both hold a role are on a slot that needs one of it:    *)
(* one is tagged, the other is not                                         *)
C18_Witness ==
    /\ result # Absent
    /\ result.feasible
    /\ Len(guards) = 2
    /\ \E sid \in DOMAIN result.coverage : \E role \in DOMAIN result.coverage[sid].roles :
          /\ result.coverage[sid].assigned = 2
          /\ result.coverage[sid].roles[role].required = 1
          /\ result.coverage[sid].roles[role].assigned = 1
          /\ \A g \in Indexes(guards) : role \in guards[g].roles \cup guards[g].skills
          /\ Cardinality(TaggedOn(result, sid)) = 1

(* the pair tests of solve on the slots at positions i < j of the input *)
Qualifies(i, j) ==
    LET first == demand_slots[i]
        second == demand_slots[j]
        B == config.hard.min_break_hours
        W == config.hard.rest_window_hours
    IN  \/ B # None /\ -B < second.start - first.end /\ second.start - first.end < B
        \/ W # None /\ 0 <= second.start - first.end /\ second.start - first.end < W
        \/ W # None /\ 0 <= first.start - second.end /\ first.start - second.end < W

PairKinds == {"min_break_violation", "rest_window_violation"}

(* C19: break and rest are only ever hard.  With min_break_hours or        *)
(* rest_window_hours set, no feasible result gives a guard both slots of a *)
(* qualifying pair, whatever the two violation weights; with both unset no *)
(* assignment is excluded by a pair; and no penalty term and no            *)
(* violation_summaries entry is named min_break_violation or               *)
(* rest_window_violation.                                                  *)
C19_BreakRestOnlyHard ==
    \A c \in Calls :
        /\ c.r.feasible =>
              \A gid \in DOMAIN c.r.assignments :
                  \A i \in Indexes(demand_slots) : \A j \in Indexes(demand_slots) :
                      (i < j /\ Qualifies(i, j)) =>
                          ~({demand_slots[i].slot_id, demand_slots[j].slot_id}
                                \subseteq Range(c.r.assignments[gid]))
        /\ (config.hard.min_break_hours = None /\ config.hard.rest_window_hours = None)
              => \A x \in AllX(c.G, demand_slots) : PairsOK(c.G, demand_slots, config, x)
        /\ \A k \in DOMAIN penalty_terms(c.G, demand_slots, config) :
              penalty_terms(c.G, demand_slots, config)[k].name.kind \notin PairKinds
        /\ \A name \in DOMAIN c.r.violation_summaries : name.kind \notin PairKinds

(* a priced minimum break, a pair of slots too close, two guards: each     *)
(* slot is staffed, no guard has both, nothing is charged                  *)
C19_Witness ==
    /\ result # Absent
    /\ result.feasible
    /\ config.hard.min_break_hours # None
    /\ config.hard.rest_window_hours = None
    /\ config.soft.min_break_violation > 0
    /\ Qualifies(1, 2)
    /\ GuardsOn(result, demand_slots[1].slot_id) # {}
    /\ GuardsOn(result, demand_slots[2].slot_id) # {}
    /\ result.objective_value = 0

(* both unset: one guard works two overlapping slots *)
C19_WitnessUnset ==
    /\ result # Absent
    /\ result.feasible
    /\ config.hard.min_break_hours = None
    /\ config.hard.rest_window_hours = None
    /\ Overlap(demand_slots[1], demand_slots[2])
    /\ \E gid \in DOMAIN result.assignments : Len(result.assignments[gid]) = 2

(* an unpriced rest window still excludes the pair: the one guard cannot   *)
(* cover both slots                                                        *)
C19_WitnessUnpriced ==
    /\ result # Absent
    /\ ~result.feasible
    /\ Len(guards) = 1
    /\ config.hard.enforce_coverage
    /\ config.hard.min_break_hours = None
    /\ config.hard.rest_window_hours # None
    /\ config.soft.rest_window_violation = 0
    /\ Qualifies(1, 2)

====
